---- MODULE Spec2Model ----
(***************************************************************************)
(* Model of the three text workflow tools (textanalyze, textreview,        *)
(* textrefactor): the request models' validation, the three step           *)
(* decisions and the expert-context formatter.                             *)
(*                                                                         *)
(* Strings are sequences of tokens; NL is the newline token.  A submitted  *)
(* argument is a tagged JSON value: absent, null, int, bool, str, list.    *)
(***************************************************************************)
EXTENDS Naturals, Sequences, FiniteSets, TLC

VARIABLES tool, raw, pc, errors, request, self, ret, calls, prev

vars == <<tool, raw, pc, errors, request, self, ret, calls, prev>>

\* ---------------------------------------------------------------- bounds

\* Largest step counter a caller submits.
MaxStep == 2

\* Longest list (issues, themes, focus areas) a caller submits.
MaxList == 2

\* Most records one caller submits one after another.
MaxCalls == 3

\* ---------------------------------------------------------- JSON values

NL == "\n"

Absent == [kind |-> "absent"]

Null == [kind |-> "null"]

JInt(n) == [kind |-> "int", v |-> n]

JBool(b) == [kind |-> "bool", v |-> b]

JStr(s) == [kind |-> "str", v |-> s]

JList(l) == [kind |-> "list", v |-> l]

\* Sequences over S of length 0..n.
RECURSIVE SeqsUpTo(_, _)
SeqsUpTo(S, n) ==
    IF n = 0 THEN {<<>>}
    ELSE LET shorter == SeqsUpTo(S, n - 1)
         IN shorter \cup {Append(s, x) : s \in shorter, x \in S}

\* ------------------------------------------------------------ the tools

Tools == {"textanalyze", "textreview", "textrefactor"}

\* Literal[...] vocabularies of the request models.
AnalyzeConfidence ==
    {<<"exploring">>, <<"low">>, <<"medium">>, <<"high">>, <<"very_high">>,
     <<"almost_certain">>, <<"certain">>}

ReviewConfidence ==
    {<<"exploring">>, <<"low">>, <<"medium">>, <<"high">>, <<"very_high">>,
     <<"almost_certain">>, <<"certain">>}

\* Variant: the vocabulary of the other two tools.
RefactorConfidenceAsAnalyze ==
    {<<"exploring">>, <<"low">>, <<"medium">>, <<"high">>, <<"very_high">>,
     <<"almost_certain">>, <<"certain">>}

RefactorConfidence ==
    {<<"exploring">>, <<"incomplete">>, <<"partial">>, <<"complete">>}

AnalysisType ==
    {<<"structure">>, <<"themes">>, <<"arguments">>, <<"style">>,
     <<"readability">>, <<"general">>}

ReviewType ==
    {<<"comprehensive">>, <<"content">>, <<"structure">>, <<"clarity">>,
     <<"style">>}

RefactorType ==
    {<<"organization">>, <<"clarity">>, <<"arguments">>, <<"style">>,
     <<"flow">>}

OutputFormat == {<<"summary">>, <<"detailed">>, <<"actionable">>}

SeverityFilter ==
    {<<"critical">>, <<"high">>, <<"medium">>, <<"low">>, <<"all">>}

\* The fields each request model declares.
CommonFields ==
    {"step", "step_number", "total_steps", "next_step_required", "findings",
     "files_checked", "relevant_files", "relevant_context", "issues_found",
     "confidence", "backtrack_from_step"}

AnalyzeFields == CommonFields \cup {"analysis_type", "output_format"}

ReviewFields == CommonFields \cup {"review_type", "severity_filter", "standards"}

RefactorFields ==
    CommonFields \cup {"refactor_type", "focus_areas", "style_guide_examples"}

Fields(t) ==
    CASE t = "textanalyze" -> AnalyzeFields
      [] t = "textreview" -> ReviewFields
      [] t = "textrefactor" -> RefactorFields

\* The classification field of each tool.
ClassField(t) ==
    CASE t = "textanalyze" -> "analysis_type"
      [] t = "textreview" -> "review_type"
      [] t = "textrefactor" -> "refactor_type"

\* ------------------------------------------------- pydantic field rules

\* Field(...): a required field; the argument must be given and non-null.
Missing(v) == v.kind \in {"absent", "null"}

\* Variant: str with min_length=1.
StrNonEmpty(v) == v.kind = "str" /\ Len(v.v) > 0

\* str: any string, the empty one included.
StrOk(v) == v.kind = "str"

\* int with ge=1.
IntGe1Ok(v) == v.kind = "int" /\ v.v >= 1

\* bool.
BoolOk(v) == v.kind = "bool"

\* Optional[list[...]]: null or a list; absent takes the default.
OptListOk(v) == v.kind \in {"absent", "null", "list"}

\* Variant: the lower bound left off the optional counter.
OptIntUnbounded(v) == v.kind \in {"absent", "null", "int"}

\* Optional[int] with ge=1 and default None.
OptIntGe1Ok(v) == v.kind \in {"absent", "null"} \/ IntGe1Ok(v)

\* Optional[str] with default None.
OptStrOk(v) == v.kind \in {"absent", "null", "str"}

\* Literal[vocab] with a default: absent takes the default.
LiteralOk(v, vocab) == v.kind = "absent" \/ (v.kind = "str" /\ v.v \in vocab)

\* default_factory=list
ListOrDefault(v) == IF v.kind = "absent" THEN JList(<<>>) ELSE v

\* default=None
OrNone(v) == IF v.kind = "absent" THEN Null ELSE v

\* default=<literal>
LiteralOrDefault(v, d) == IF v.kind = "absent" THEN d ELSE v.v

\* ------------------------------------------------------ request models

\* The fields of a submitted record that break a rule of TextAnalyzeRequest
\* (pydantic reports every failing field, each under its own name).
TextAnalyzeRequestErrors(r) ==
    {f \in AnalyzeFields :
        CASE f = "step" -> Missing(r[f]) \/ ~StrOk(r[f])
          [] f = "step_number" -> Missing(r[f]) \/ ~IntGe1Ok(r[f])
          [] f = "total_steps" -> Missing(r[f]) \/ ~IntGe1Ok(r[f])
          [] f = "next_step_required" -> Missing(r[f]) \/ ~BoolOk(r[f])
          [] f = "findings" -> Missing(r[f]) \/ ~StrOk(r[f])
          [] f = "files_checked" -> ~OptListOk(r[f])
          [] f = "relevant_files" -> ~OptListOk(r[f])
          [] f = "relevant_context" -> ~OptListOk(r[f])
          [] f = "issues_found" -> ~OptListOk(r[f])
          [] f = "analysis_type" -> ~LiteralOk(r[f], AnalysisType)
          [] f = "output_format" -> ~LiteralOk(r[f], OutputFormat)
          [] f = "confidence" -> ~LiteralOk(r[f], AnalyzeConfidence)
          [] f = "backtrack_from_step" -> ~OptIntGe1Ok(r[f])}

\* The validated TextAnalyzeRequest built from a record without errors.
TextAnalyzeRequest(r) ==
    [step |-> r.step.v,
     step_number |-> r.step_number.v,
     total_steps |-> r.total_steps.v,
     next_step_required |-> r.next_step_required.v,
     findings |-> r.findings.v,
     files_checked |-> ListOrDefault(r.files_checked),
     relevant_files |-> ListOrDefault(r.relevant_files),
     relevant_context |-> ListOrDefault(r.relevant_context),
     issues_found |-> ListOrDefault(r.issues_found),
     analysis_type |-> LiteralOrDefault(r.analysis_type, <<"general">>),
     output_format |-> LiteralOrDefault(r.output_format, <<"detailed">>),
     confidence |-> LiteralOrDefault(r.confidence, <<"exploring">>),
     backtrack_from_step |-> OrNone(r.backtrack_from_step)]

TextReviewRequestErrors(r) ==
    {f \in ReviewFields :
        CASE f = "step" -> Missing(r[f]) \/ ~StrOk(r[f])
          [] f = "step_number" -> Missing(r[f]) \/ ~IntGe1Ok(r[f])
          [] f = "total_steps" -> Missing(r[f]) \/ ~IntGe1Ok(r[f])
          [] f = "next_step_required" -> Missing(r[f]) \/ ~BoolOk(r[f])
          [] f = "findings" -> Missing(r[f]) \/ ~StrOk(r[f])
          [] f = "files_checked" -> ~OptListOk(r[f])
          [] f = "relevant_files" -> ~OptListOk(r[f])
          [] f = "relevant_context" -> ~OptListOk(r[f])
          [] f = "issues_found" -> ~OptListOk(r[f])
          [] f = "review_type" -> ~LiteralOk(r[f], ReviewType)
          [] f = "severity_filter" -> ~LiteralOk(r[f], SeverityFilter)
          [] f = "standards" -> ~OptStrOk(r[f])
          [] f = "confidence" -> ~LiteralOk(r[f], ReviewConfidence)
          [] f = "backtrack_from_step" -> ~OptIntGe1Ok(r[f])}

TextReviewRequest(r) ==
    [step |-> r.step.v,
     step_number |-> r.step_number.v,
     total_steps |-> r.total_steps.v,
     next_step_required |-> r.next_step_required.v,
     findings |-> r.findings.v,
     files_checked |-> ListOrDefault(r.files_checked),
     relevant_files |-> ListOrDefault(r.relevant_files),
     relevant_context |-> ListOrDefault(r.relevant_context),
     issues_found |-> ListOrDefault(r.issues_found),
     review_type |-> LiteralOrDefault(r.review_type, <<"comprehensive">>),
     severity_filter |-> LiteralOrDefault(r.severity_filter, <<"all">>),
     standards |-> OrNone(r.standards),
     confidence |-> LiteralOrDefault(r.confidence, <<"exploring">>),
     backtrack_from_step |-> OrNone(r.backtrack_from_step)]

TextRefactorRequestErrors(r) ==
    {f \in RefactorFields :
        CASE f = "step" -> Missing(r[f]) \/ ~StrOk(r[f])
          [] f = "step_number" -> Missing(r[f]) \/ ~IntGe1Ok(r[f])
          [] f = "total_steps" -> Missing(r[f]) \/ ~IntGe1Ok(r[f])
          [] f = "next_step_required" -> Missing(r[f]) \/ ~BoolOk(r[f])
          [] f = "findings" -> Missing(r[f]) \/ ~StrOk(r[f])
          [] f = "files_checked" -> ~OptListOk(r[f])
          [] f = "relevant_files" -> ~OptListOk(r[f])
          [] f = "relevant_context" -> ~OptListOk(r[f])
          [] f = "issues_found" -> ~OptListOk(r[f])
          [] f = "refactor_type" -> ~LiteralOk(r[f], RefactorType)
          [] f = "focus_areas" -> ~OptListOk(r[f])
          [] f = "style_guide_examples" -> ~OptListOk(r[f])
          [] f = "confidence" -> ~LiteralOk(r[f], RefactorConfidence)
          [] f = "backtrack_from_step" -> ~OptIntGe1Ok(r[f])}

\* Variant: the confidence default of the other two request models.
TextRefactorRequestDefaultExploring(r) ==
    [step |-> r.step.v,
     step_number |-> r.step_number.v,
     total_steps |-> r.total_steps.v,
     next_step_required |-> r.next_step_required.v,
     findings |-> r.findings.v,
     files_checked |-> ListOrDefault(r.files_checked),
     relevant_files |-> ListOrDefault(r.relevant_files),
     relevant_context |-> ListOrDefault(r.relevant_context),
     issues_found |-> ListOrDefault(r.issues_found),
     refactor_type |-> LiteralOrDefault(r.refactor_type, <<"organization">>),
     focus_areas |-> ListOrDefault(r.focus_areas),
     style_guide_examples |-> ListOrDefault(r.style_guide_examples),
     confidence |-> LiteralOrDefault(r.confidence, <<"exploring">>),
     backtrack_from_step |-> OrNone(r.backtrack_from_step)]

TextRefactorRequest(r) ==
    [step |-> r.step.v,
     step_number |-> r.step_number.v,
     total_steps |-> r.total_steps.v,
     next_step_required |-> r.next_step_required.v,
     findings |-> r.findings.v,
     files_checked |-> ListOrDefault(r.files_checked),
     relevant_files |-> ListOrDefault(r.relevant_files),
     relevant_context |-> ListOrDefault(r.relevant_context),
     issues_found |-> ListOrDefault(r.issues_found),
     refactor_type |-> LiteralOrDefault(r.refactor_type, <<"organization">>),
     focus_areas |-> ListOrDefault(r.focus_areas),
     style_guide_examples |-> ListOrDefault(r.style_guide_examples),
     confidence |-> LiteralOrDefault(r.confidence, <<"incomplete">>),
     backtrack_from_step |-> OrNone(r.backtrack_from_step)]

\* Variant: a step_number beyond total_steps is an error of the record.
RequestErrorsWithinTotal(t, r) ==
    LET own == CASE t = "textanalyze" -> TextAnalyzeRequestErrors(r)
                 [] t = "textreview" -> TextReviewRequestErrors(r)
                 [] t = "textrefactor" -> TextRefactorRequestErrors(r)
        beyond == /\ r.step_number.kind = "int"
                  /\ r.total_steps.kind = "int"
                  /\ r.step_number.v > r.total_steps.v
    IN own \cup (IF beyond THEN {"step_number"} ELSE {})

\* get_request_model(): the request model of each tool.
RequestErrors(t, r) ==
    CASE t = "textanalyze" -> TextAnalyzeRequestErrors(r)
      [] t = "textreview" -> TextReviewRequestErrors(r)
      [] t = "textrefactor" -> TextRefactorRequestErrors(r)

RequestModel(t, r) ==
    CASE t = "textanalyze" -> TextAnalyzeRequest(r)
      [] t = "textreview" -> TextReviewRequest(r)
      [] t = "textrefactor" -> TextRefactorRequest(r)

\* No request object exists (construction has not run, or it raised).
NoRequest == [none |-> TRUE]

\* Variant: a failing field that has a default falls back to it, and only a
\* failing required field raises.
ConstructLenient(t, r) ==
    LET errs == RequestErrors(t, r)
        required == {"step", "step_number", "total_steps", "next_step_required",
                     "findings"}
        kept == [f \in Fields(t) |-> IF f \in errs THEN Absent ELSE r[f]]
    IN IF errs \cap required = {}
       THEN [pc |-> "validated", errors |-> errs, request |-> RequestModel(t, kept)]
       ELSE [pc |-> "rejected", errors |-> errs, request |-> NoRequest]

\* Variant: a step_number that does not exceed the one of the step before is
\* refused.
ConstructMonotone(t, r) ==
    LET back == /\ DOMAIN prev # {"none"}
                /\ r.step_number.kind = "int"
                /\ r.step_number.v <= prev.step_number
        errs == RequestErrors(t, r)
                \cup (IF back THEN {"step_number"} ELSE {})
    IN IF errs = {}
       THEN [pc |-> "validated", errors |-> {}, request |-> RequestModel(t, r)]
       ELSE [pc |-> "rejected", errors |-> errs, request |-> NoRequest]

\* Constructing the request model: a ValidationError carrying every failing
\* field and no object when any field fails, else the object with its defaults.
Construct(t, r) ==
    LET errs == RequestErrors(t, r)
    IN IF errs = {}
       THEN [pc |-> "validated", errors |-> {}, request |-> RequestModel(t, r)]
       ELSE [pc |-> "rejected", errors |-> errs, request |-> NoRequest]

\* ------------------------------------------------------- Python values

\* bool(x) of an Optional[list]: None and the empty list are false.
Truthy(x) == x.kind = "list" /\ Len(x.v) > 0

\* iter(x): a list can be iterated, None raises TypeError.
Iterable(x) == x.kind = "list"

\* str.upper() of the classification values.
UpperToken(tok) ==
    CASE tok = "structure" -> "STRUCTURE"
      [] tok = "themes" -> "THEMES"
      [] tok = "arguments" -> "ARGUMENTS"
      [] tok = "style" -> "STYLE"
      [] tok = "readability" -> "READABILITY"
      [] tok = "general" -> "GENERAL"
      [] tok = "comprehensive" -> "COMPREHENSIVE"
      [] tok = "content" -> "CONTENT"
      [] tok = "clarity" -> "CLARITY"
      [] tok = "organization" -> "ORGANIZATION"
      [] tok = "flow" -> "FLOW"
      [] OTHER -> tok

upper(s) == [i \in DOMAIN s |-> UpperToken(s[i])]

\* repr() of a str: quoted, a newline written as the two characters \n.
ReprStr(s) ==
    <<"'">> \o [i \in DOMAIN s |-> IF s[i] = NL THEN "\\n" ELSE s[i]] \o <<"'">>

\* sep.join(parts) over strings.
RECURSIVE Join(_, _)
Join(parts, sep) ==
    IF Len(parts) = 0 THEN <<>>
    ELSE IF Len(parts) = 1 THEN parts[1]
    ELSE parts[1] \o sep \o Join(Tail(parts), sep)

\* str() of a dict (a sequence of <<key, value>> pairs in insertion order):
\* {'k1': 'v1', 'k2': 'v2'}.
ReprDict(d) ==
    <<"{">>
    \o Join([i \in DOMAIN d |-> ReprStr(d[i][1]) \o <<": ">> \o ReprStr(d[i][2])],
            <<", ">>)
    \o <<"}">>

\* Variant: each distinct issue listed once.
RECURSIVE Deduplicated(_)
Deduplicated(xs) ==
    IF xs = <<>> THEN <<>>
    ELSE LET rest == Deduplicated(SubSeq(xs, 1, Len(xs) - 1))
             last == xs[Len(xs)]
         IN IF \E i \in DOMAIN rest : rest[i] = last
            THEN rest
            ELSE Append(rest, last)

DictBulletsDeduplicated(xs) ==
    [i \in DOMAIN Deduplicated(xs) |-> <<"- ">> \o ReprDict(Deduplicated(xs)[i])]

\* [f"- {x}" for x in xs] with x a dict.
DictBullets(xs) == [i \in DOMAIN xs |-> <<"- ">> \o ReprDict(xs[i])]

\* [f"- {x}" for x in xs] with x a str.
StrBullets(xs) == [i \in DOMAIN xs |-> <<"- ">> \o xs[i]]

\* ------------------------------------------------------------ the tools

\* __init__ of each tool: the fields the instance starts with.
TextAnalyzeToolInit == [initial_request |-> Null, analysis_config |-> <<>>]

TextReviewToolInit == [initial_request |-> Null, review_config |-> <<>>]

TextRefactorToolInit == [initial_request |-> Null, refactor_config |-> <<>>]

ToolInit(t) ==
    CASE t = "textanalyze" -> TextAnalyzeToolInit
      [] t = "textreview" -> TextReviewToolInit
      [] t = "textrefactor" -> TextRefactorToolInit

\* TextAnalyzeTool ---------------------------------------------------------

\* Variant: a step that backtracks has the files embedded again.
AnalyzeShouldEmbedOnBacktrack(req) ==
    \/ req.backtrack_from_step.kind = "int"
    \/ req.step_number = 1
    \/ Truthy(req.relevant_files)
    \/ req.analysis_type \in {<<"structure">>, <<"themes">>, <<"arguments">>}

AnalyzeShouldEmbedFilesAsContext(req) ==
    IF req.step_number = 1 THEN TRUE
    ELSE IF Truthy(req.relevant_files) THEN TRUE
    ELSE IF req.analysis_type \in {<<"structure">>, <<"themes">>, <<"arguments">>}
         THEN TRUE
    ELSE FALSE

AnalyzeGetRequiredActions(req) ==
    IF req.step_number = 1
    THEN <<"Use Read tool to examine the text document(s) specified in relevant_files",
           "Understand the document structure and main content areas",
           "Identify key themes, arguments, and organizational patterns",
           "Map out the text structure and content flow">>
    ELSE <<"Continue investigating specific aspects identified in previous steps",
           "Use Read tool to examine additional sections or related documents",
           "Gather concrete evidence to support your analysis",
           "Build on previous findings with new insights">>

\* Variant: the expert is asked only at the last step of the workflow.
AnalyzeExpertAtLastStepOnly(req) ==
    ~req.next_step_required /\ req.confidence # <<"certain">>

AnalyzeShouldCallExpertAnalysis(req) == req.confidence # <<"certain">>

\* Variant: the themes section put before the issues section.
AnalyzeContextThemesFirst(req) ==
    LET head == << <<"TEXT ANALYSIS REQUEST - ">> \o upper(req.analysis_type),
                   <<"Analysis confidence: ">> \o req.confidence,
                   <<"Step ", ToString(req.step_number), " of ",
                     ToString(req.total_steps)>>,
                   <<>>,
                   <<"ANALYSIS FINDINGS:">>,
                   req.findings >>
        issues == IF Truthy(req.issues_found)
                  THEN << <<>>, <<"ISSUES IDENTIFIED:">> >>
                       \o DictBullets(req.issues_found.v)
                  ELSE <<>>
        themes == IF Truthy(req.relevant_context)
                  THEN << <<>>, <<"KEY THEMES/ARGUMENTS:">> >>
                       \o StrBullets(req.relevant_context.v)
                  ELSE <<>>
    IN Join(head \o themes \o issues, <<NL>>)

AnalyzePrepareExpertAnalysisContext(req) ==
    LET head == << <<"TEXT ANALYSIS REQUEST - ">> \o upper(req.analysis_type),
                   <<"Analysis confidence: ">> \o req.confidence,
                   <<"Step ", ToString(req.step_number), " of ",
                     ToString(req.total_steps)>>,
                   <<>>,
                   <<"ANALYSIS FINDINGS:">>,
                   req.findings >>
        issues == IF Truthy(req.issues_found)
                  THEN << <<>>, <<"ISSUES IDENTIFIED:">> >>
                       \o DictBullets(req.issues_found.v)
                  ELSE <<>>
        themes == IF Truthy(req.relevant_context)
                  THEN << <<>>, <<"KEY THEMES/ARGUMENTS:">> >>
                       \o StrBullets(req.relevant_context.v)
                  ELSE <<>>
    IN Join(head \o issues \o themes, <<NL>>)

AnalyzePreparePrompt(req) == req.step

\* TextReviewTool ----------------------------------------------------------

\* Variant: the step-1 branch left out.
ReviewShouldEmbedNoFirstStep(req) ==
    IF Truthy(req.relevant_files) THEN TRUE
    ELSE IF req.review_type \in {<<"comprehensive">>, <<"content">>, <<"structure">>}
         THEN TRUE
    ELSE FALSE

\* Variant: 'comprehensive' left out of the content-heavy review types.
ReviewShouldEmbedContentStructure(req) ==
    IF req.step_number = 1 THEN TRUE
    ELSE IF Truthy(req.relevant_files) THEN TRUE
    ELSE IF req.review_type \in {<<"content">>, <<"structure">>}
         THEN TRUE
    ELSE FALSE

ReviewShouldEmbedFilesAsContext(req) ==
    IF req.step_number = 1 THEN TRUE
    ELSE IF Truthy(req.relevant_files) THEN TRUE
    ELSE IF req.review_type \in {<<"comprehensive">>, <<"content">>, <<"structure">>}
         THEN TRUE
    ELSE FALSE

ReviewGetRequiredActions(req) ==
    IF req.step_number = 1
    THEN <<"Use Read tool to examine the text document(s) specified in relevant_files",
           "Assess overall document quality and structure",
           "Identify potential issues and improvement opportunities",
           "Evaluate argument strength and clarity">>
    ELSE <<"Continue investigating specific quality aspects identified in previous steps",
           "Use Read tool to examine problem areas or related sections",
           "Gather concrete evidence for review assessments",
           "Build comprehensive quality evaluation">>

\* Variant: the expert is asked whatever the confidence.
ReviewAlwaysCallExpert(req) == TRUE

ReviewShouldCallExpertAnalysis(req) == req.confidence # <<"certain">>

\* Variant: the issues title written whether or not there are issues.
ReviewContextAlwaysIssuesTitle(req) ==
    LET head == << <<"TEXT REVIEW REQUEST - ">> \o upper(req.review_type),
                   <<"Review confidence: ">> \o req.confidence,
                   <<"Step ", ToString(req.step_number), " of ",
                     ToString(req.total_steps)>>,
                   <<>>,
                   <<"REVIEW FINDINGS:">>,
                   req.findings >>
        issues == << <<>>, <<"ISSUES IDENTIFIED:">> >>
                  \o (IF Truthy(req.issues_found)
                      THEN DictBullets(req.issues_found.v)
                      ELSE <<>>)
    IN Join(head \o issues, <<NL>>)

ReviewPrepareExpertAnalysisContext(req) ==
    LET head == << <<"TEXT REVIEW REQUEST - ">> \o upper(req.review_type),
                   <<"Review confidence: ">> \o req.confidence,
                   <<"Step ", ToString(req.step_number), " of ",
                     ToString(req.total_steps)>>,
                   <<>>,
                   <<"REVIEW FINDINGS:">>,
                   req.findings >>
        issues == IF Truthy(req.issues_found)
                  THEN << <<>>, <<"ISSUES IDENTIFIED:">> >>
                       \o DictBullets(req.issues_found.v)
                  ELSE <<>>
    IN Join(head \o issues, <<NL>>)

ReviewPreparePrompt(req) == req.step

\* TextRefactorTool --------------------------------------------------------

\* Variant: the style_guide_examples branch left out.
RefactorShouldEmbedNoStyleGuide(req) ==
    IF req.step_number = 1 THEN TRUE
    ELSE IF Truthy(req.relevant_files) THEN TRUE
    ELSE IF req.refactor_type \in {<<"organization">>, <<"clarity">>, <<"arguments">>}
         THEN TRUE
    ELSE FALSE

RefactorShouldEmbedFilesAsContext(req) ==
    IF req.step_number = 1 THEN TRUE
    ELSE IF Truthy(req.relevant_files) THEN TRUE
    ELSE IF Truthy(req.style_guide_examples) THEN TRUE
    ELSE IF req.refactor_type \in {<<"organization">>, <<"clarity">>, <<"arguments">>}
         THEN TRUE
    ELSE FALSE

\* Variant: no further actions once the confidence is terminal.
RefactorActionsNoneWhenComplete(req) ==
    IF req.confidence = <<"complete">> THEN <<>>
    ELSE IF req.step_number = 1
    THEN <<"Use Read tool to examine the text document(s) specified in relevant_files",
           "Analyze document organization and structure patterns",
           "Identify areas needing refactoring and improvement",
           "Map out potential reorganization strategies">>
    ELSE <<"Continue investigating specific refactoring opportunities identified in previous steps",
           "Use Read tool to examine problematic sections or style examples",
           "Gather concrete evidence for refactoring recommendations",
           "Build comprehensive improvement strategy">>

RefactorGetRequiredActions(req) ==
    IF req.step_number = 1
    THEN <<"Use Read tool to examine the text document(s) specified in relevant_files",
           "Analyze document organization and structure patterns",
           "Identify areas needing refactoring and improvement",
           "Map out potential reorganization strategies">>
    ELSE <<"Continue investigating specific refactoring opportunities identified in previous steps",
           "Use Read tool to examine problematic sections or style examples",
           "Gather concrete evidence for refactoring recommendations",
           "Build comprehensive improvement strategy">>

\* Variant: the terminal value of the other two tools.
RefactorShouldCallExpertCertain(req) == req.confidence # <<"certain">>

RefactorShouldCallExpertAnalysis(req) == req.confidence # <<"complete">>

\* Variant: the trailing section written from relevant_context, as the
\* Analyze formatter does.
RefactorContextFromRelevantContext(req) ==
    LET head == << <<"TEXT REFACTORING REQUEST - ">> \o upper(req.refactor_type),
                   <<"Refactoring confidence: ">> \o req.confidence,
                   <<"Step ", ToString(req.step_number), " of ",
                     ToString(req.total_steps)>>,
                   <<>>,
                   <<"REFACTORING FINDINGS:">>,
                   req.findings >>
        issues == IF Truthy(req.issues_found)
                  THEN << <<>>, <<"REFACTORING OPPORTUNITIES:">> >>
                       \o DictBullets(req.issues_found.v)
                  ELSE <<>>
        focus == IF Truthy(req.relevant_context)
                 THEN << <<>>, <<"FOCUS AREAS:">> >>
                      \o StrBullets(req.relevant_context.v)
                 ELSE <<>>
    IN Join(head \o issues \o focus, <<NL>>)

RefactorPrepareExpertAnalysisContext(req) ==
    LET head == << <<"TEXT REFACTORING REQUEST - ">> \o upper(req.refactor_type),
                   <<"Refactoring confidence: ">> \o req.confidence,
                   <<"Step ", ToString(req.step_number), " of ",
                     ToString(req.total_steps)>>,
                   <<>>,
                   <<"REFACTORING FINDINGS:">>,
                   req.findings >>
        issues == IF Truthy(req.issues_found)
                  THEN << <<>>, <<"REFACTORING OPPORTUNITIES:">> >>
                       \o DictBullets(req.issues_found.v)
                  ELSE <<>>
        focus == IF Truthy(req.focus_areas)
                 THEN << <<>>, <<"FOCUS AREAS:">> >>
                      \o StrBullets(req.focus_areas.v)
                 ELSE <<>>
    IN Join(head \o issues \o focus, <<NL>>)

RefactorPreparePrompt(req) == req.step

\* Whether prepare_expert_analysis_context raises: each comprehension over an
\* optional list runs only inside the `if` on that list.
AnalyzePrepareExpertAnalysisContextRaises(req) ==
    \/ Truthy(req.issues_found) /\ ~Iterable(req.issues_found)
    \/ Truthy(req.relevant_context) /\ ~Iterable(req.relevant_context)

ReviewPrepareExpertAnalysisContextRaises(req) ==
    Truthy(req.issues_found) /\ ~Iterable(req.issues_found)

\* Variant: the comprehensions run outside the `if` on their list.
RefactorContextRaisesUnguarded(req) ==
    ~Iterable(req.issues_found) \/ ~Iterable(req.focus_areas)

RefactorPrepareExpertAnalysisContextRaises(req) ==
    \/ Truthy(req.issues_found) /\ ~Iterable(req.issues_found)
    \/ Truthy(req.focus_areas) /\ ~Iterable(req.focus_areas)

\* ------------------------------------------------------ method dispatch

Methods ==
    {"should_embed_files_as_context", "get_required_actions",
     "should_call_expert_analysis", "prepare_expert_analysis_context",
     "prepare_prompt"}

should_embed_files_as_context(t, req) ==
    CASE t = "textanalyze" -> AnalyzeShouldEmbedFilesAsContext(req)
      [] t = "textreview" -> ReviewShouldEmbedFilesAsContext(req)
      [] t = "textrefactor" -> RefactorShouldEmbedFilesAsContext(req)

get_required_actions(t, req) ==
    CASE t = "textanalyze" -> AnalyzeGetRequiredActions(req)
      [] t = "textreview" -> ReviewGetRequiredActions(req)
      [] t = "textrefactor" -> RefactorGetRequiredActions(req)

should_call_expert_analysis(t, req) ==
    CASE t = "textanalyze" -> AnalyzeShouldCallExpertAnalysis(req)
      [] t = "textreview" -> ReviewShouldCallExpertAnalysis(req)
      [] t = "textrefactor" -> RefactorShouldCallExpertAnalysis(req)

prepare_expert_analysis_context(t, req) ==
    CASE t = "textanalyze" -> AnalyzePrepareExpertAnalysisContext(req)
      [] t = "textreview" -> ReviewPrepareExpertAnalysisContext(req)
      [] t = "textrefactor" -> RefactorPrepareExpertAnalysisContext(req)

prepare_prompt(t, req) ==
    CASE t = "textanalyze" -> AnalyzePreparePrompt(req)
      [] t = "textreview" -> ReviewPreparePrompt(req)
      [] t = "textrefactor" -> RefactorPreparePrompt(req)

\* Whether method m raises on req.  Comparing, bool() and `in` are defined on
\* every validated value; only the formatter iterates over optional lists.
Raises(t, m, req) ==
    /\ m = "prepare_expert_analysis_context"
    /\ CASE t = "textanalyze" -> AnalyzePrepareExpertAnalysisContextRaises(req)
         [] t = "textreview" -> ReviewPrepareExpertAnalysisContextRaises(req)
         [] t = "textrefactor" -> RefactorPrepareExpertAnalysisContextRaises(req)

\* Variant: the step-1 request is kept on the instance as initial_request and
\* its relevant_files count for the embedding decision of later steps.
InvokeSticky(inst, t, m, req) ==
    LET kept == IF req.step_number = 1
                THEN [inst EXCEPT !.initial_request = req]
                ELSE inst
        carried == /\ DOMAIN kept.initial_request # {"kind"}
                   /\ Truthy(kept.initial_request.relevant_files)
    IN [self |-> kept,
        request |-> req,
        raised |-> Raises(t, m, req),
        value |->
           IF Raises(t, m, req) THEN <<"TypeError">>
           ELSE CASE m = "should_embed_files_as_context" ->
                         should_embed_files_as_context(t, req) \/ carried
                  [] m = "get_required_actions" -> get_required_actions(t, req)
                  [] m = "should_call_expert_analysis" ->
                         should_call_expert_analysis(t, req)
                  [] m = "prepare_expert_analysis_context" ->
                         prepare_expert_analysis_context(t, req)
                  [] m = "prepare_prompt" -> prepare_prompt(t, req)]

\* Variant: the request that carried the terminal confidence is kept on the
\* instance as initial_request and no later step of that instance asks for the
\* expert again.
InvokeLatching(inst, t, m, req) ==
    LET done == DOMAIN inst.initial_request # {"kind"}
        kept == IF /\ m = "should_call_expert_analysis"
                   /\ ~should_call_expert_analysis(t, req)
                THEN [inst EXCEPT !.initial_request = req]
                ELSE inst
    IN [self |-> kept,
        request |-> req,
        raised |-> Raises(t, m, req),
        value |->
           IF Raises(t, m, req) THEN <<"TypeError">>
           ELSE CASE m = "should_embed_files_as_context" ->
                         should_embed_files_as_context(t, req)
                  [] m = "get_required_actions" -> get_required_actions(t, req)
                  [] m = "should_call_expert_analysis" ->
                         should_call_expert_analysis(t, req) /\ ~done
                  [] m = "prepare_expert_analysis_context" ->
                         prepare_expert_analysis_context(t, req)
                  [] m = "prepare_prompt" -> prepare_prompt(t, req)]

\* Variant: the step text of a first step is kept on the instance as
\* initial_request.
InvokeKeepsInitialRequest(inst, t, m, req) ==
    [self |-> IF req.step_number = 1
              THEN [inst EXCEPT !.initial_request = JStr(req.step)]
              ELSE inst,
     request |-> req,
     raised |-> Raises(t, m, req),
     value |->
        IF Raises(t, m, req) THEN <<"TypeError">>
        ELSE CASE m = "should_embed_files_as_context" ->
                      should_embed_files_as_context(t, req)
               [] m = "get_required_actions" -> get_required_actions(t, req)
               [] m = "should_call_expert_analysis" ->
                      should_call_expert_analysis(t, req)
               [] m = "prepare_expert_analysis_context" ->
                      prepare_expert_analysis_context(t, req)
               [] m = "prepare_prompt" -> prepare_prompt(t, req)]

\* One method call on the instance inst of tool t with the request req: the
\* instance and the request as the call leaves them, whether it raised, and the
\* value returned.  No method assigns to self or to the request.
Invoke(inst, t, m, req) ==
    [self |-> inst,
     request |-> req,
     raised |-> Raises(t, m, req),
     value |->
        IF Raises(t, m, req) THEN <<"TypeError">>
        ELSE CASE m = "should_embed_files_as_context" ->
                      should_embed_files_as_context(t, req)
               [] m = "get_required_actions" -> get_required_actions(t, req)
               [] m = "should_call_expert_analysis" ->
                      should_call_expert_analysis(t, req)
               [] m = "prepare_expert_analysis_context" ->
                      prepare_expert_analysis_context(t, req)
               [] m = "prepare_prompt" -> prepare_prompt(t, req)]

\* ------------------------------------------------- submitted records

Paths == {<<"/doc.md">>}

Themes == {<<"intro">>, <<"plot", NL, "arc">>}

IssueHigh ==
    << <<<<"severity">>, <<"high">>>>,
       <<<<"description">>, <<"weak", NL, "claim">>>> >>

IssueLow ==
    << <<<<"severity">>, <<"low">>>>,
       <<<<"type">>, <<"style">>>>,
       <<<<"description">>, <<"long sentence">>>> >>

\* A dict whose severity is none of the four documented levels: dict[str, Any]
\* takes it.
IssueBlocker ==
    << <<<<"severity">>, <<"blocker">>>>,
       <<<<"description">>, <<"no thesis">>>> >>

Issues == {IssueHigh, IssueLow, IssueBlocker}

AnyConfidence ==
    AnalyzeConfidence \cup ReviewConfidence \cup RefactorConfidence
    \cup {<<"unknown">>}

ClassVocabulary(t) ==
    CASE t = "textanalyze" -> AnalysisType
      [] t = "textreview" -> ReviewType
      [] t = "textrefactor" -> RefactorType

\* The values a caller submits for field f of tool t.
Dom(t, f) ==
    CASE f = "step" -> {Absent, JStr(<<>>), JStr(<<"plan">>)}
      [] f \in {"step_number", "total_steps"} ->
            {Absent} \cup {JInt(n) : n \in 0..MaxStep}
      [] f = "next_step_required" -> {Absent, JBool(TRUE), JBool(FALSE)}
      [] f = "findings" ->
            {Absent, JStr(<<>>), JStr(<<"F1">>), JStr(<<"F1", NL, "F2">>)}
      [] f \in {"files_checked", "relevant_files", "style_guide_examples"} ->
            {Absent, Null} \cup {JList(l) : l \in SeqsUpTo(Paths, MaxList)}
      [] f \in {"relevant_context", "focus_areas"} ->
            {Absent, Null} \cup {JList(l) : l \in SeqsUpTo(Themes, MaxList)}
      [] f = "issues_found" ->
            {Absent, Null} \cup {JList(l) : l \in SeqsUpTo(Issues, MaxList)}
      [] f \in {"analysis_type", "review_type", "refactor_type"} ->
            {Absent} \cup {JStr(c) : c \in ClassVocabulary(t) \cup {<<"unknown">>}}
      [] f = "output_format" ->
            {Absent} \cup {JStr(c) : c \in OutputFormat \cup {<<"unknown">>}}
      [] f = "severity_filter" ->
            {Absent} \cup {JStr(c) : c \in SeverityFilter \cup {<<"unknown">>}}
      [] f = "standards" -> {Absent, Null, JStr(<<"house style">>)}
      [] f = "confidence" -> {Absent} \cup {JStr(c) : c \in AnyConfidence}
      [] f = "backtrack_from_step" ->
            {Absent, Null} \cup {JInt(n) : n \in 0..MaxStep}

\* The smallest valid record: the required fields only.
Base(t) ==
    [f \in Fields(t) |->
        CASE f = "step" -> JStr(<<"plan">>)
          [] f = "step_number" -> JInt(1)
          [] f = "total_steps" -> JInt(1)
          [] f = "next_step_required" -> JBool(TRUE)
          [] f = "findings" -> JStr(<<"F1">>)
          [] OTHER -> Absent]

\* A record a caller submits to tool t: step_number n, the values v and w for
\* the fields f and g, the rest as in the smallest valid record.
Record(t, n, f, v, g, w) ==
    [[[Base(t) EXCEPT !["step_number"] = n] EXCEPT ![f] = v] EXCEPT ![g] = w]

\* The records of a caller that submits one record after another.
SeqFields(t) == {"confidence", "relevant_files", ClassField(t)}

SeqRecord(t, n, f, v) == [[Base(t) EXCEPT !["step_number"] = n] EXCEPT ![f] = v]

\* ------------------------------------------------------------- the state

NoReturn == [op |-> "none", raised |-> FALSE, value |-> FALSE]

\* No earlier step: the caller's sequence starts with the current record.
NoStep == [none |-> TRUE]

Init ==
    /\ tool \in Tools
    /\ \E n \in Dom(tool, "step_number") :
       \E f \in Fields(tool) \ {"step_number"} :
       \E g \in Fields(tool) \ {"step_number"} :
       \E v \in Dom(tool, f) : \E w \in Dom(tool, g) :
          raw = Record(tool, n, f, v, g, w)
    /\ pc = "submitted"
    /\ errors = {}
    /\ request = NoRequest
    /\ self = [t \in Tools |-> ToolInit(t)]
    /\ ret = NoReturn
    /\ calls = 1
    /\ prev = NoStep

\* The request model is constructed from the submitted arguments.
Validate ==
    /\ pc = "submitted"
    /\ LET c == Construct(tool, raw)
       IN /\ pc' = c.pc
          /\ errors' = c.errors
          /\ request' = c.request
    /\ UNCHANGED <<tool, raw, self, ret, calls, prev>>

\* A method of the tool is called with the validated request.
Call(m) ==
    /\ pc = "validated"
    /\ LET o == Invoke(self[tool], tool, m, request)
       IN /\ self' = [self EXCEPT ![tool] = o.self]
          /\ request' = o.request
          /\ ret' = [op |-> m, raised |-> o.raised, value |-> o.value]
    /\ UNCHANGED <<tool, raw, pc, errors, calls, prev>>

ShouldEmbedFilesAsContext == Call("should_embed_files_as_context")

GetRequiredActions == Call("get_required_actions")

ShouldCallExpertAnalysis == Call("should_call_expert_analysis")

PrepareExpertAnalysisContext == Call("prepare_expert_analysis_context")

PreparePrompt == Call("prepare_prompt")

Next ==
    \/ Validate
    \/ ShouldEmbedFilesAsContext
    \/ GetRequiredActions
    \/ ShouldCallExpertAnalysis
    \/ PrepareExpertAnalysisContext
    \/ PreparePrompt

Spec == Init /\ [][Next]_vars

\* The caller submits another record, to any tool, after any step.
Submit ==
    /\ calls < MaxCalls
    /\ calls' = calls + 1
    /\ \E t \in Tools : \E n \in Dom(t, "step_number") :
       \E f \in SeqFields(t) : \E v \in Dom(t, f) :
          /\ tool' = t
          /\ raw' = SeqRecord(t, n, f, v)
    /\ pc' = "submitted"
    /\ errors' = {}
    /\ request' = NoRequest
    /\ ret' = NoReturn
    /\ UNCHANGED <<self, prev>>

InitSeq ==
    /\ tool \in Tools
    /\ \E n \in Dom(tool, "step_number") :
       \E f \in SeqFields(tool) : \E v \in Dom(tool, f) :
          raw = SeqRecord(tool, n, f, v)
    /\ pc = "submitted"
    /\ errors = {}
    /\ request = NoRequest
    /\ self = [t \in Tools |-> ToolInit(t)]
    /\ ret = NoReturn
    /\ calls = 1
    /\ prev = NoStep

NextSeq == Next \/ Submit

SpecSeq == InitSeq /\ [][NextSeq]_vars

\* The step counters and confidence values of a caller that sends the steps
\* of one workflow to one tool: any counter up to one past MaxStep, so that a
\* step can be skipped, and the default, the lowest, a middle and the
\* terminal confidence of either vocabulary.
StepNumbers == {JInt(n) : n \in 0..(MaxStep + 1)}

StepConfidences ==
    {Absent} \cup {JStr(c) : c \in {<<"exploring">>, <<"high">>, <<"certain">>,
                                    <<"partial">>, <<"complete">>}}

StepRecord(t, n, c) ==
    [[Base(t) EXCEPT !["step_number"] = n] EXCEPT !["confidence"] = c]

\* What is remembered of the step before: its step_number, its confidence
\* and, as a one-element sequence, what should_call_expert_analysis has just
\* returned for it (empty if that was not the last call).
Remember ==
    IF pc = "validated"
    THEN [step_number |-> request.step_number,
          confidence |-> request.confidence,
          expert |-> IF ret.op = "should_call_expert_analysis"
                     THEN <<ret.value>> ELSE <<>>]
    ELSE prev

\* The caller submits the next step of the workflow to the same tool; the
\* tool keeps nothing of the step before, prev records it for the properties.
NextStep ==
    /\ pc # "submitted"
    /\ calls < MaxCalls
    /\ calls' = calls + 1
    /\ \E n \in StepNumbers : \E c \in StepConfidences :
          raw' = StepRecord(tool, n, c)
    /\ prev' = Remember
    /\ pc' = "submitted"
    /\ errors' = {}
    /\ request' = NoRequest
    /\ ret' = NoReturn
    /\ UNCHANGED <<tool, self>>

InitSteps ==
    /\ tool \in Tools
    /\ \E n \in StepNumbers : \E c \in StepConfidences :
          raw = StepRecord(tool, n, c)
    /\ pc = "submitted"
    /\ errors = {}
    /\ request = NoRequest
    /\ self = [t \in Tools |-> ToolInit(t)]
    /\ ret = NoReturn
    /\ calls = 1
    /\ prev = NoStep

NextSteps == Next \/ NextStep

SpecSteps == InitSteps /\ [][NextSteps]_vars

\* The entry point of a tool (spec section 6): validation, then the three
\* decisions, then the formatted context when needs_expert_analysis is true.
\* The composing code is in the workflow base class; it is written here from
\* the spec.
EntryPoint(inst, t, r) ==
    LET c == Construct(t, r)
        value(m) == Invoke(inst, t, m, c.request).value
    IN IF c.pc = "rejected"
       THEN [is_valid |-> FALSE, validation_error |-> c.errors]
       ELSE LET decisions ==
                   [is_valid |-> TRUE,
                    embed_files |-> value("should_embed_files_as_context"),
                    required_actions |-> value("get_required_actions"),
                    needs_expert_analysis |-> value("should_call_expert_analysis")]
            IN IF decisions.needs_expert_analysis
               THEN decisions @@
                    [expert_context |-> value("prepare_expert_analysis_context")]
               ELSE decisions

\* The caller passes the submitted record to the entry point.
Execute ==
    /\ pc = "submitted"
    /\ LET c == Construct(tool, raw)
       IN /\ pc' = c.pc
          /\ errors' = c.errors
          /\ request' = c.request
    /\ ret' = [op |-> "execute", raised |-> FALSE,
               value |-> EntryPoint(self[tool], tool, raw)]
    /\ UNCHANGED <<tool, raw, self, calls, prev>>

NextEntry == Execute

SpecEntry == Init /\ [][NextEntry]_vars

\* =================================================================== claims

\* The spec's table of terminal confidence values.
TerminalConfidence(t) ==
    IF t = "textrefactor" THEN <<"complete">> ELSE <<"certain">>

\* The spec's content-heavy subset of each tool's classification.
ContentHeavy(t) ==
    CASE t = "textanalyze" -> {<<"structure">>, <<"themes">>, <<"arguments">>}
      [] t = "textrefactor" -> {<<"organization">>, <<"clarity">>, <<"arguments">>}
      [] t = "textreview" -> {<<"comprehensive">>, <<"content">>, <<"structure">>}

\* A collection of the validated record that holds at least one entry.
NonEmpty(x) == x.kind = "list" /\ x.v # <<>>

C2_FirstStepEmbeds ==
    (ret.op = "should_embed_files_as_context" /\ request.step_number = 1) =>
        ret.value = TRUE

\* Review at step 1 with a classification outside the content-heavy subset
\* and relevant_files null: only the step number makes it true.
C2_Witness ==
    /\ ret.op = "should_embed_files_as_context"
    /\ tool = "textreview"
    /\ request.step_number = 1
    /\ request.review_type = <<"clarity">>
    /\ request.relevant_files = Null
    /\ ret.value = TRUE

\* C3: should_embed_files_as_context returns true if and only if step_number
\* is 1, or relevant_files is non-empty, or the classification is in the
\* tool's content-heavy subset, or (Refactor only) style_guide_examples is
\* non-empty.
C3_EmbedIff ==
    ret.op = "should_embed_files_as_context" =>
        ret.value =
            ( \/ request.step_number = 1
              \/ NonEmpty(request.relevant_files)
              \/ request[ClassField(tool)] \in ContentHeavy(tool)
              \/ /\ tool = "textrefactor"
                 /\ NonEmpty(request.style_guide_examples) )

\* Refactor at a later step, classification 'style', no relevant files, a
\* style guide example given: true through style_guide_examples alone.
C3_Witness ==
    /\ ret.op = "should_embed_files_as_context"
    /\ tool = "textrefactor"
    /\ request.step_number > 1
    /\ request.refactor_type = <<"style">>
    /\ ~NonEmpty(request.relevant_files)
    /\ NonEmpty(request.style_guide_examples)
    /\ ret.value = TRUE

\* The fields the spec requires of every record.
RequiredFields ==
    {"step", "step_number", "total_steps", "next_step_required", "findings"}

\* The step-counter fields, each at least 1.
CounterFields == {"step_number", "total_steps", "backtrack_from_step"}

\* The spec's table of vocabularies (section 4.1).
SpecVocabulary(t, f) ==
    IF f = "confidence"
    THEN CASE t = "textrefactor" ->
                {<<"exploring">>, <<"incomplete">>, <<"partial">>, <<"complete">>}
           [] OTHER ->
                {<<"exploring">>, <<"low">>, <<"medium">>, <<"high">>,
                 <<"very_high">>, <<"almost_certain">>, <<"certain">>}
    ELSE CASE t = "textanalyze" ->
                {<<"structure">>, <<"themes">>, <<"arguments">>, <<"style">>,
                 <<"readability">>, <<"general">>}
           [] t = "textrefactor" ->
                {<<"organization">>, <<"clarity">>, <<"arguments">>, <<"style">>,
                 <<"flow">>}
           [] t = "textreview" ->
                {<<"comprehensive">>, <<"content">>, <<"structure">>, <<"clarity">>,
                 <<"style">>}

\* C4: a record that lacks a required field, or whose step_number, total_steps
\* or given backtrack_from_step is below 1, is rejected with a ValidationError
\* naming that field; an absent backtrack_from_step is no error.
C4_MissingOrLowCounterRejected ==
    pc # "submitted" =>
        /\ \A f \in RequiredFields :
              raw[f].kind = "absent" => (pc = "rejected" /\ f \in errors)
        /\ \A f \in CounterFields :
              (raw[f].kind = "int" /\ raw[f].v < 1) =>
                  (pc = "rejected" /\ f \in errors)
        /\ raw.backtrack_from_step.kind = "absent" =>
              "backtrack_from_step" \notin errors

\* Review record without findings and with backtrack_from_step 0: both named.
C4_Witness ==
    /\ pc = "rejected"
    /\ tool = "textreview"
    /\ raw.findings = Absent
    /\ raw.backtrack_from_step = JInt(0)
    /\ errors = {"findings", "backtrack_from_step"}

\* C5: each tool accepts for its classification field and its confidence
\* field exactly the values of its own vocabulary and rejects every other
\* value with a ValidationError on that field.
C5_ClosedVocabularies ==
    pc # "submitted" =>
        \A f \in {ClassField(tool), "confidence"} :
            raw[f].kind = "str" =>
                /\ (f \in errors) <=> (raw[f].v \notin SpecVocabulary(tool, f))
                /\ (f \in errors) => pc = "rejected"

\* Refactor rejects confidence 'certain', every other field being valid.
C5_Witness ==
    /\ pc = "rejected"
    /\ tool = "textrefactor"
    /\ raw.confidence = JStr(<<"certain">>)
    /\ errors = {"confidence"}

\* A field value that breaks one of the spec's validation rules.
Violates(t, f, v) ==
    \/ f \in RequiredFields /\ v.kind = "absent"
    \/ f \in CounterFields /\ v.kind = "int" /\ v.v < 1
    \/ /\ f \in {ClassField(t), "confidence"}
       /\ v.kind = "str"
       /\ v.v \notin SpecVocabulary(t, f)

\* C6: when any field of a submitted record breaks a rule, the whole record
\* is rejected: no request object exists and no decision or expert context is
\* derived from it, whatever the other fields hold.
C6_AllOrNothing ==
    /\ (pc # "submitted" /\ \E f \in Fields(tool) : Violates(tool, f, raw[f])) =>
          pc = "rejected"
    /\ pc = "rejected" => (DOMAIN request = {"none"} /\ ret.op = "none")

\* Review record whose only fault is its confidence value.
C6_Witness ==
    /\ pc = "rejected"
    /\ tool = "textreview"
    /\ errors = {"confidence"}
    /\ raw.confidence = JStr(<<"complete">>)
    /\ raw.relevant_files = JList(<<<<"/doc.md">>>>)
    /\ DOMAIN request = {"none"}
    /\ ret.op = "none"

\* C7: the three decisions and the formatter are total over validated
\* records: whatever the valid field values, optional lists empty, omitted or
\* null included, each call returns a value of its type and raises nothing.
C7_Total ==
    ret.op # "none" =>
        /\ ret.raised = FALSE
        /\ ret.op \in {"should_embed_files_as_context",
                       "should_call_expert_analysis"} => ret.value \in BOOLEAN
        /\ ret.op = "get_required_actions" => Len(ret.value) = 4
        /\ ret.op = "prepare_expert_analysis_context" =>
              (DOMAIN ret.value = 1..Len(ret.value) /\ Len(ret.value) > 0)

\* Refactor formats a record whose issues_found and focus_areas are null.
C7_Witness ==
    /\ ret.op = "prepare_expert_analysis_context"
    /\ tool = "textrefactor"
    /\ request.issues_found = Null
    /\ request.focus_areas = Null
    /\ ret.raised = FALSE

\* C8: after any sequence of submissions and calls, to any tools, the value a
\* call returns for a record is the one a fresh tool instance returns for that
\* record alone, and the instances hold what they held at construction.
C8_Stateless ==
    /\ self = [t \in Tools |-> ToolInit(t)]
    /\ ret.op # "none" =>
          LET first == Invoke(ToolInit(tool), tool, ret.op,
                              Construct(tool, raw).request)
          IN /\ ret.raised = first.raised
             /\ ret.value = first.value

\* A later submission whose files are not embedded.
C8_Witness ==
    /\ calls = MaxCalls
    /\ ret.op = "should_embed_files_as_context"
    /\ request.step_number > 1
    /\ ret.value = FALSE

\* The lines of a text: its tokens split at the newline tokens.
RECURSIVE SplitLines(_)
SplitLines(text) ==
    IF \A i \in DOMAIN text : text[i] # NL THEN <<text>>
    ELSE LET k == CHOOSE i \in DOMAIN text :
                      text[i] = NL /\ \A j \in 1..(i - 1) : text[j] # NL
         IN <<SubSeq(text, 1, k - 1)>>
            \o SplitLines(SubSeq(text, k + 1, Len(text)))

\* block lies in text at position i.
Occurs(text, i, block) ==
    /\ i >= 1
    /\ i + Len(block) - 1 <= Len(text)
    /\ SubSeq(text, i, i + Len(block) - 1) = block

\* The first position at or after from where block lies in text, 0 if none.
Find(text, from, block) ==
    LET at == {i \in from..(Len(text) + 1) : Occurs(text, i, block)}
    IN IF at = {} THEN 0 ELSE CHOOSE i \in at : \A j \in at : i <= j

\* The name each formatter gives its request kind.
RequestKind(t) ==
    CASE t = "textanalyze" -> "TEXT ANALYSIS REQUEST - "
      [] t = "textreview" -> "TEXT REVIEW REQUEST - "
      [] t = "textrefactor" -> "TEXT REFACTORING REQUEST - "

\* The collection each formatter lists in its themes/focus section, if it
\* has such a section.
ThemesOf(t, req) ==
    CASE t = "textanalyze" -> req.relevant_context
      [] t = "textrefactor" -> req.focus_areas
      [] t = "textreview" -> JList(<<>>)

\* The entries of the issues section and of the themes/focus section.
IssueEntries(req) == Join(DictBullets(req.issues_found.v), <<NL>>)

ThemeEntries(t, req) == Join(StrBullets(ThemesOf(t, req).v), <<NL>>)

\* C9: the formatted expert context holds, in this order and without
\* overlap: the header line naming the request kind and the classification,
\* the confidence line, the line 'Step <step_number> of <total_steps>', the
\* findings verbatim, the issues entries (if any), the themes/focus entries
\* (if any).
C9_PartsInOrder ==
    ret.op = "prepare_expert_analysis_context" =>
        LET out == ret.value
            L == SplitLines(out)
            stepEnd == Len(L[1]) + 1 + Len(L[2]) + 1 + Len(L[3])
            pF == Find(out, stepEnd + 2, request.findings)
            endF == pF + Len(request.findings)
            pI == IF NonEmpty(request.issues_found)
                  THEN Find(out, endF + 1, IssueEntries(request))
                  ELSE endF
            endI == IF NonEmpty(request.issues_found)
                    THEN pI + Len(IssueEntries(request))
                    ELSE endF
            pT == IF NonEmpty(ThemesOf(tool, request))
                  THEN Find(out, endI + 1, ThemeEntries(tool, request))
                  ELSE endI
        IN /\ Len(L) >= 4
           /\ L[1][1] = RequestKind(tool)
           /\ upper(Tail(L[1])) = upper(request[ClassField(tool)])
           /\ Len(L[2]) > 1
           /\ Tail(L[2]) = request.confidence
           /\ L[3] = <<"Step ", ToString(request.step_number), " of ",
                       ToString(request.total_steps)>>
           /\ pF # 0
           /\ pI # 0
           /\ pT # 0

\* Analyze formats a record with both issues and themes.
C9_Witness ==
    /\ ret.op = "prepare_expert_analysis_context"
    /\ tool = "textanalyze"
    /\ NonEmpty(request.issues_found)
    /\ NonEmpty(request.relevant_context)
    /\ ret.raised = FALSE

\* The title line each formatter puts above its issue entries.
IssuesTitle(t) ==
    IF t = "textrefactor" THEN <<"REFACTORING OPPORTUNITIES:">>
    ELSE <<"ISSUES IDENTIFIED:">>

\* C10: when issues_found is non-empty the issues section has exactly one
\* line per element of issues_found, in the original order, duplicates kept:
\* the i-th line renders the i-th issue and the section ends after the last.
C10_OneEntryPerIssue ==
    (ret.op = "prepare_expert_analysis_context" /\ NonEmpty(request.issues_found)) =>
        LET L == SplitLines(ret.value)
            issues == request.issues_found.v
            n == Len(issues)
        IN \E j \in 1..Len(L) :
              /\ L[j] = IssuesTitle(tool)
              /\ j + n <= Len(L)
              /\ \A i \in 1..n : L[j + i] = <<"- ">> \o ReprDict(issues[i])
              /\ (j + n = Len(L) \/ L[j + n + 1] = <<>>)

\* Review formats a record that lists the same issue twice.
C10_Witness ==
    /\ ret.op = "prepare_expert_analysis_context"
    /\ tool = "textreview"
    /\ request.issues_found = JList(<<IssueHigh, IssueHigh>>)
    /\ ret.raised = FALSE

\* The collection the data model names as each tool's themes or focus areas.
ThemesField(t) ==
    IF t = "textrefactor" THEN "focus_areas" ELSE "relevant_context"

\* The title lines the formatters put above a themes/focus section.
ThemesTitles == {<<"KEY THEMES/ARGUMENTS:">>, <<"FOCUS AREAS:">>}

\* The lines of the formatted context that follow the findings.
AfterFindings(out, req) ==
    LET L == SplitLines(out)
        n == 5 + Len(SplitLines(req.findings))
    IN IF n >= Len(L) THEN <<>> ELSE SubSeq(L, n + 1, Len(L))

\* text ends with block.
EndsWith(text, block) ==
    /\ Len(block) <= Len(text)
    /\ SubSeq(text, Len(text) - Len(block) + 1, Len(text)) = block

\* C11: an empty or absent optional collection produces no section: with
\* issues_found empty no line after the findings is the issues title, with
\* the themes/focus collection empty no line after the findings is a
\* themes/focus title, and with both empty the formatted context ends with
\* the findings text.
C11_EmptyCollectionNoSection ==
    ret.op = "prepare_expert_analysis_context" =>
        LET rest == AfterFindings(ret.value, request)
            noIssues == ~NonEmpty(request.issues_found)
            noThemes == ~NonEmpty(request[ThemesField(tool)])
        IN /\ noIssues => \A i \in DOMAIN rest : rest[i] # IssuesTitle(tool)
           /\ noThemes => \A i \in DOMAIN rest : rest[i] \notin ThemesTitles
           /\ (noIssues /\ noThemes) =>
                 /\ rest = <<>>
                 /\ EndsWith(ret.value, request.findings)

\* Review formats a record whose issues_found is the empty list and whose
\* relevant_context is absent.
C11_Witness ==
    /\ ret.op = "prepare_expert_analysis_context"
    /\ tool = "textreview"
    /\ raw.issues_found = JList(<<>>)
    /\ raw.relevant_context = Absent
    /\ EndsWith(ret.value, request.findings)

\* The positions in lines of a line equal to one of titles.
TitleAt(lines, titles) == {j \in DOMAIN lines : lines[j] \in titles}

\* C12: for each of the three tools, whenever the record's themes/focus
\* collection is non-empty the formatted expert context contains, after the
\* issues section, a themes/focus section: a title line followed by one line
\* per entry of the collection, in the original order, up to the end.
C12_ThemesSectionEveryTool ==
    (/\ ret.op = "prepare_expert_analysis_context"
     /\ NonEmpty(request[ThemesField(tool)])) =>
        LET rest == AfterFindings(ret.value, request)
            themes == request[ThemesField(tool)].v
            n == Len(themes)
        IN \E j \in TitleAt(rest, ThemesTitles) :
              /\ \A k \in TitleAt(rest, {IssuesTitle(tool)}) : k < j
              /\ j + n = Len(rest)
              /\ \A i \in 1..n : rest[j + i] = <<"- ">> \o themes[i]

\* The validated form of the plain record of tool t at step n: every
\* optional field left out.
PlainRequest(t, n) ==
    Construct(t, [Base(t) EXCEPT !.step_number = JInt(n)]).request

\* The two action lists of tool t.
FirstStepActions(t) == get_required_actions(t, PlainRequest(t, 1))

LaterStepActions(t) == get_required_actions(t, PlainRequest(t, 2))

\* C13: required_actions is chosen by a two-way branch on step_number alone:
\* at step 1 it is the tool's list of four step-1 actions (which starts with
\* reading the relevant files), at any later step the tool's list of four
\* later-step actions, whatever the other fields hold.
C13_ActionsByStepOnly ==
    ret.op = "get_required_actions" =>
        /\ ret.raised = FALSE
        /\ Len(ret.value) = 4
        /\ FirstStepActions(tool) # LaterStepActions(tool)
        /\ request.step_number = 1 =>
              /\ ret.value = FirstStepActions(tool)
              /\ ret.value[1] = "Use Read tool to examine the text document(s) specified in relevant_files"
        /\ request.step_number > 1 =>
              /\ ret.value = LaterStepActions(tool)
              /\ ret.value[1] # "Use Read tool to examine the text document(s) specified in relevant_files"

\* Analyze at step 1 with relevant_files ['/doc.md'] and confidence
\* 'exploring': the step-1 actions, files embedded, expert wanted.
C13_Witness ==
    /\ ret.op = "get_required_actions"
    /\ tool = "textanalyze"
    /\ raw.step_number = JInt(1)
    /\ raw.relevant_files = JList(<< <<"/doc.md">> >>)
    /\ raw.confidence = JStr(<<"exploring">>)
    /\ ret.value = FirstStepActions(tool)
    /\ should_embed_files_as_context(tool, request) = TRUE
    /\ should_call_expert_analysis(tool, request) = TRUE

\* A field value that is valid taken by itself: the required fields given
\* with their primitive type, the counters at least 1, the closed fields
\* absent or within their vocabulary, the optional ones absent, null or of
\* their type.
FieldValid(t, f, v) ==
    CASE f \in {"step", "findings"} -> v.kind = "str"
      [] f \in {"step_number", "total_steps"} -> v.kind = "int" /\ v.v >= 1
      [] f = "next_step_required" -> v.kind = "bool"
      [] f = "backtrack_from_step" ->
            v.kind \in {"absent", "null"} \/ (v.kind = "int" /\ v.v >= 1)
      [] f \in {ClassField(t), "confidence"} ->
            v.kind = "absent" \/ (v.kind = "str" /\ v.v \in SpecVocabulary(t, f))
      [] f = "output_format" ->
            v.kind = "absent" \/ (v.kind = "str" /\ v.v \in OutputFormat)
      [] f = "severity_filter" ->
            v.kind = "absent" \/ (v.kind = "str" /\ v.v \in SeverityFilter)
      [] f = "standards" -> v.kind \in {"absent", "null", "str"}
      [] OTHER -> v.kind \in {"absent", "null", "list"}

\* The place of a confidence value in its chain, lowest first.
ConfidenceRank(c) ==
    CASE c \in {<<"exploring">>} -> 1
      [] c \in {<<"low">>, <<"incomplete">>} -> 2
      [] c \in {<<"medium">>, <<"partial">>} -> 3
      [] c \in {<<"high">>, <<"complete">>} -> 4
      [] c = <<"very_high">> -> 5
      [] c = <<"almost_certain">> -> 6
      [] c = <<"certain">> -> 7

\* C14: no progression is enforced between successive steps: whatever step
\* was accepted before, the next record is accepted exactly when each of its
\* own fields is valid, whether its step_number repeats, decreases or skips
\* and whether its confidence moves up or down.
C14_NoProgressionEnforced ==
    (DOMAIN prev # {"none"} /\ pc # "submitted") =>
        /\ (pc = "validated") <=>
              \A f \in Fields(tool) : FieldValid(tool, f, raw[f])
        /\ pc = "rejected" => errors # {}

\* Step 3 with confidence 'high', then step 1 with confidence 'exploring':
\* accepted.
C14_Witness ==
    /\ DOMAIN prev # {"none"}
    /\ pc = "validated"
    /\ prev.step_number = 3
    /\ request.step_number = 1
    /\ prev.confidence = <<"high">>
    /\ raw.confidence = JStr(<<"exploring">>)
    /\ ConfidenceRank(request.confidence) < ConfidenceRank(prev.confidence)

\* The step before carried the terminal confidence and was answered with
\* needs_expert_analysis false.
TerminalStepBefore ==
    /\ DOMAIN prev # {"none"}
    /\ prev.confidence = TerminalConfidence(tool)
    /\ prev.expert = <<FALSE>>

\* C15: the terminal confidence is not absorbing: after a step with the
\* terminal confidence has been answered with needs_expert_analysis false,
\* the next record is still accepted exactly when its own fields are valid,
\* and should_call_expert_analysis is again true for every record whose
\* confidence is not the terminal value.
C15_TerminalNotAbsorbing ==
    TerminalStepBefore =>
        /\ pc # "submitted" =>
              ((pc = "validated") <=>
                  \A f \in Fields(tool) : FieldValid(tool, f, raw[f]))
        /\ ret.op = "should_call_expert_analysis" =>
              /\ ret.raised = FALSE
              /\ ret.value = (request.confidence # TerminalConfidence(tool))

\* Refactor: 'complete' answered with false, then 'partial' answered with true.
C15_Witness ==
    /\ TerminalStepBefore
    /\ tool = "textrefactor"
    /\ raw.confidence = JStr(<<"partial">>)
    /\ ret.op = "should_call_expert_analysis"
    /\ ret.value = TRUE

\* The validated request with its backtrack_from_step taken out.
WithoutBacktrack(req) == [req EXCEPT !.backtrack_from_step = Null]

\* C16: backtrack_from_step is advisory: every decision and the formatted
\* context of a validated record that sets it equal those of the record that
\* differs only in leaving it out, and processing the record discards
\* nothing: the request and the instance are as before the call.
C16_BacktrackAdvisory ==
    (ret.op # "none" /\ request.backtrack_from_step.kind = "int") =>
        LET other == Invoke(ToolInit(tool), tool, ret.op,
                            WithoutBacktrack(request))
        IN /\ ret.raised = other.raised
           /\ ret.value = other.value
           /\ request = Construct(tool, raw).request
           /\ self[tool] = ToolInit(tool)

\* Analyze at step 2 backtracking from step 1: the files are not embedded,
\* as without the backtrack.
C16_Witness ==
    /\ ret.op = "should_embed_files_as_context"
    /\ tool = "textanalyze"
    /\ request.step_number = 2
    /\ request.backtrack_from_step = JInt(1)
    /\ ret.value = FALSE

C18_StepNonEmptyOnly ==
    pc # "submitted" =>
        /\ raw.step = JStr(<<>>) => (pc = "rejected" /\ "step" \in errors)
        /\ (raw.step.kind = "str" /\ raw.step.v # <<>>) => "step" \notin errors

\* C18 amended: the step field is validated for presence and type only: a
\* record without a step is rejected with a ValidationError on step, and
\* every step string, the empty one included, is accepted; prepare_prompt
\* hands the string back unchanged.
C18_StepPresenceOnly ==
    /\ pc # "submitted" =>
          /\ ("step" \in errors) <=> (raw.step.kind # "str")
          /\ "step" \in errors => pc = "rejected"
          /\ (\A f \in Fields(tool) \ {"step"} : FieldValid(tool, f, raw[f])) =>
                (pc = "validated" <=> raw.step.kind = "str")
    /\ ret.op = "prepare_prompt" => ret.value = raw.step.v

\* A record whose step is the empty string is accepted and its prompt is
\* the empty string.
C18_Witness ==
    /\ pc = "validated"
    /\ raw.step = JStr(<<>>)
    /\ ret.op = "prepare_prompt"
    /\ ret.value = <<>>

\* The four severity levels of an issue.
SeverityLevels == {<<"critical">>, <<"high">>, <<"medium">>, <<"low">>}

\* The dict d has a 'severity' entry whose value is one of the four levels.
HasSeverityLevel(d) ==
    \E k \in DOMAIN d : d[k][1] = <<"severity">> /\ d[k][2] \in SeverityLevels

\* C19: in every record accepted by validation, each element of
\* issues_found has a severity from {critical, high, medium, low}.
C19_SeverityFromFixedSet ==
    (pc = "validated" /\ request.issues_found.kind = "list") =>
        \A i \in DOMAIN request.issues_found.v :
            HasSeverityLevel(request.issues_found.v[i])

\* The entries of a list argument, none if it is absent or null.
Entries(v) == IF v.kind = "list" THEN {v.v[i] : i \in DOMAIN v.v} ELSE {}

\* C20: validation imposes no cross-field constraint: a record is accepted
\* exactly when each of its fields is valid taken by itself, and the fields
\* named in the ValidationError are exactly the invalid ones; so records with
\* relevant_files outside files_checked, step_number above total_steps or
\* backtrack_from_step at or above step_number are accepted.
C20_NoCrossFieldConstraint ==
    pc # "submitted" =>
        /\ (pc = "validated") <=>
              \A f \in Fields(tool) : FieldValid(tool, f, raw[f])
        /\ errors = {f \in Fields(tool) : ~FieldValid(tool, f, raw[f])}

\* Step 2 of 1, backtracking from step 2, with a relevant file that is not
\* among the files checked: accepted, and the file is embedded.
C20_Witness ==
    /\ pc = "validated"
    /\ request.step_number > request.total_steps
    /\ request.backtrack_from_step.kind = "int"
    /\ request.backtrack_from_step.v >= request.step_number
    /\ Entries(request.relevant_files) # {}
    /\ ~(Entries(request.relevant_files) \subseteq Entries(request.files_checked))
    /\ ret.op = "should_embed_files_as_context"
    /\ ret.value = TRUE

\* The confidence a record starts with when it gives none.
InitialConfidence(t) ==
    IF t = "textrefactor" THEN <<"incomplete">> ELSE <<"exploring">>

\* C21: when confidence is omitted the validated record carries the tool's
\* initial confidence, 'exploring' for Analyze and Review and 'incomplete'
\* for Refactor, and for such a record should_call_expert_analysis is true.
C21_DefaultConfidence ==
    (pc = "validated" /\ raw.confidence = Absent) =>
        /\ request.confidence = InitialConfidence(tool)
        /\ request.confidence # TerminalConfidence(tool)
        /\ ret.op = "should_call_expert_analysis" =>
              (ret.raised = FALSE /\ ret.value = TRUE)

\* Refactor without confidence: 'incomplete', and the expert is wanted.
C21_Witness ==
    /\ pc = "validated"
    /\ tool = "textrefactor"
    /\ raw.confidence = Absent
    /\ request.confidence = <<"incomplete">>
    /\ ret.op = "should_call_expert_analysis"
    /\ ret.value = TRUE

\* The name of each tool's configuration dict.
ConfigField(t) ==
    CASE t = "textanalyze" -> "analysis_config"
      [] t = "textreview" -> "review_config"
      [] t = "textrefactor" -> "refactor_config"

\* C22: no decision or formatting operation writes to the tool instance or
\* to the request: after any sequence of submissions and calls every
\* instance still has initial_request None and an empty configuration dict,
\* and the request is the one validation built from the submitted record.
C22_NoWrites ==
    /\ \A t \in Tools :
          /\ self[t].initial_request = Null
          /\ self[t][ConfigField(t)] = <<>>
          /\ DOMAIN self[t] = {"initial_request", ConfigField(t)}
    /\ pc = "validated" => request = Construct(tool, raw).request

\* The last of the submitted records, a first step, has had its prompt
\* prepared: the instance is as constructed.
C22_Witness ==
    /\ calls = MaxCalls
    /\ ret.op = "prepare_prompt"
    /\ request.step_number = 1
    /\ self[tool].initial_request = Null
    /\ request = Construct(tool, raw).request

\* The validated request with next_step_required negated.
WithOtherNextStep(req) ==
    [req EXCEPT !.next_step_required = ~req.next_step_required]

\* C23: next_step_required influences none of the outputs: every decision
\* and the formatted context of a validated record equal those of the record
\* that differs only in next_step_required; in particular the expert
\* decision is true for a non-terminal confidence also when
\* next_step_required is false, and false for the terminal confidence also
\* when next_step_required is true.
C23_NextStepRequiredIgnored ==
    ret.op # "none" =>
        LET other == Invoke(ToolInit(tool), tool, ret.op,
                            WithOtherNextStep(request))
        IN /\ ret.raised = other.raised
           /\ ret.value = other.value
           /\ ret.op = "should_call_expert_analysis" =>
                 ret.value = (request.confidence # TerminalConfidence(tool))

\* Analyze, last step announced with confidence 'high': the expert is
\* still wanted.
C23_Witness ==
    /\ ret.op = "should_call_expert_analysis"
    /\ tool = "textanalyze"
    /\ raw.next_step_required = JBool(FALSE)
    /\ raw.confidence = JStr(<<"high">>)
    /\ ret.value = TRUE

\* C24: with the classification field omitted, Review and Refactor return
\* embed_files true for every validated record at every step number, and
\* Analyze returns embed_files false for every record with step_number > 1
\* and empty relevant_files.
C24_DefaultClassificationEmbeds ==
    (ret.op = "should_embed_files_as_context" /\ raw[ClassField(tool)] = Absent) =>
        /\ ret.raised = FALSE
        /\ tool \in {"textreview", "textrefactor"} => ret.value = TRUE
        /\ (/\ tool = "textanalyze"
            /\ request.step_number > 1
            /\ ~NonEmpty(request.relevant_files)) => ret.value = FALSE

\* Review at a later step, with no review_type and no relevant_files: the
\* files are embedded.
C24_Witness ==
    /\ ret.op = "should_embed_files_as_context"
    /\ tool = "textreview"
    /\ raw.review_type = Absent
    /\ request.step_number > 1
    /\ ~NonEmpty(request.relevant_files)
    /\ ret.value = TRUE

\* Other values of relevant_context a record could carry.
OtherContexts == {JList(<<>>), JList(<< <<"intro">> >>), Null}

\* The trailing section of the Refactor formatter for the focus areas of req.
FocusSection(req) ==
    <<NL, NL, "FOCUS AREAS:", NL>> \o ThemeEntries("textrefactor", req)

\* C25: in the Refactor tool the trailing section of the formatted context
\* is driven by focus_areas alone: its title follows the findings exactly
\* when focus_areas is non-empty, the context then ends with the
\* focus_areas entries in their order, and a record that differs only in
\* relevant_context gives the same formatted context.
C25_FocusAreasAlone ==
    (ret.op = "prepare_expert_analysis_context" /\ tool = "textrefactor") =>
        LET rest == AfterFindings(ret.value, request)
        IN /\ ret.raised = FALSE
           /\ NonEmpty(request.focus_areas) <=>
                 (TitleAt(rest, {<<"FOCUS AREAS:">>}) # {})
           /\ TitleAt(rest, {<<"KEY THEMES/ARGUMENTS:">>}) = {}
           /\ NonEmpty(request.focus_areas) =>
                 EndsWith(ret.value, FocusSection(request))
           /\ \A c \in OtherContexts :
                 ret.value = prepare_expert_analysis_context(
                                 tool, [request EXCEPT !.relevant_context = c])

\* Refactor formats a record with both relevant_context and focus_areas:
\* the context ends with the focus areas.
C25_Witness ==
    /\ ret.op = "prepare_expert_analysis_context"
    /\ tool = "textrefactor"
    /\ request.relevant_context = JList(<< <<"plot", NL, "arc">> >>)
    /\ request.focus_areas = JList(<< <<"intro">>, <<"intro">> >>)
    /\ EndsWith(ret.value, FocusSection(request))

====
